---- MODULE Spec2Model ----
(***************************************************************************)
(* Model of ToolBox/Visualizer/QuantConnect.Visualizer.py: the command     *)
(* line tool that locates the QuantConnect assemblies, loads a zipped data *)
(* file through them, selects the columns to plot and saves a PNG.         *)
(*                                                                         *)
(* Strings whose content the code inspects (the DATAFILE argument, column  *)
(* names, file names, --size fields, uuid text) are sequences of one       *)
(* character strings, so that Python's `in`, slicing, split and int() are  *)
(* computed rather than assumed.                                           *)
(***************************************************************************)
EXTENDS Integers, Sequences, FiniteSets, TLC

\* ------------------------------------------------------------------ bounds
MaxSegs == 2      \* path segments in a DATAFILE identifier
MaxCols == 4      \* columns of a parsed data frame
MaxCalls == 2     \* calls made by one process

\* ----------------------------------------------------------------- strings
tick == <<"t","i","c","k">>
hour == <<"h","o","u","r">>
daily == <<"d","a","i","l","y">>
openinterest == <<"o","p","e","n","i","n","t","e","r","e","s","t">>
price == <<"p","r","i","c","e">>
close == <<"c","l","o","s","e">>
bidclose == <<"b","i","d","c","l","o","s","e">>
askprice == <<"a","s","k","p","r","i","c","e">>
volume == <<"v","o","l","u","m","e">>
es == <<"e","s">>

\* Python None where a str is expected (never equal to a str of characters)
None == <<"None">>

\* Python: needle in hay (substring test on str)
Contains(needle, hay) ==
    \E i \in 0..(Len(hay) - Len(needle)) :
        SubSeq(hay, i + 1, i + Len(needle)) = needle

\* Python: [col for col in columns if word in col]
RECURSIVE ColumnsContaining(_, _)
ColumnsContaining(word, columns) ==
    IF columns = <<>> THEN <<>>
    ELSE IF Contains(word, Head(columns))
         THEN <<Head(columns)>> \o ColumnsContaining(word, Tail(columns))
         ELSE ColumnsContaining(word, Tail(columns))

\* Python: xs[:n]
Slice(xs, n) == SubSeq(xs, 1, IF Len(xs) < n THEN Len(xs) ELSE n)

\* ---- faulty variants of the column selection (plausible slips in get_data)
SelectNoOverride(columns, data_file_argument) ==
    LET picked == IF Contains(tick, data_file_argument)
                  THEN ColumnsContaining(price, columns)
                  ELSE ColumnsContaining(close, columns)
    IN IF Len(picked) = 3 THEN Slice(picked, 2) ELSE picked

SelectTickUntruncated(columns, data_file_argument) ==
    LET picked == IF Contains(tick, data_file_argument)
                  THEN ColumnsContaining(price, columns)
                  ELSE ColumnsContaining(close, columns)
        forced == IF Contains(openinterest, data_file_argument)
                  THEN <<openinterest>> ELSE picked
    IN IF Len(forced) = 3 /\ ~Contains(tick, data_file_argument)
       THEN Slice(forced, 2) ELSE forced

SelectTruncateAtLeast3(columns, data_file_argument) ==
    LET picked == IF Contains(tick, data_file_argument)
                  THEN ColumnsContaining(price, columns)
                  ELSE ColumnsContaining(close, columns)
        forced == IF Contains(openinterest, data_file_argument)
                  THEN <<openinterest>> ELSE picked
    IN IF Len(forced) >= 3 THEN Slice(forced, 2) ELSE forced

\* get_data, lines 68-76: the list cols_to_plot
SelectColumns(columns, data_file_argument) ==
    LET picked == IF Contains(tick, data_file_argument)
                  THEN ColumnsContaining(price, columns)
                  ELSE ColumnsContaining(close, columns)
        forced == IF Contains(openinterest, data_file_argument)
                  THEN <<openinterest>> ELSE picked
    IN IF Len(forced) = 3 THEN Slice(forced, 2) ELSE forced

\* ------------------------------------------------- inputs of the selection
SeqsUpTo(S, n) == UNION {[1..k -> S] : k \in 0..n}

Segments == {tick, hour, daily, openinterest, es}
ColumnNames == {close, bidclose, price, askprice, openinterest}

RECURSIVE JoinPath(_)
JoinPath(segs) ==
    IF Len(segs) = 1 THEN Head(segs)
    ELSE Head(segs) \o <<"/">> \o JoinPath(Tail(segs))

Identifiers == {JoinPath(s) : s \in (SeqsUpTo(Segments, MaxSegs) \ {<<>>})}
ColumnLists == SeqsUpTo(ColumnNames, MaxCols)

\* ------------------------------------------------------------ file system
\* A directory is the sequence of its path components below the root.
Work == <<"work">>
Asm == <<"work", "asm">>
Out == <<"work", "out">>
Dirs == {Work, Asm, Out}

\* pathlib: a relative path is taken against the working directory
Resolve(p, wd) == IF p.abs THEN p.segs ELSE wd \o p.segs

QuantConnect == <<"Q","u","a","n","t","C","o","n","n","e","c","t">>
ToolBoxExe == <<"Q","u","a","n","t","C","o","n","n","e","c","t",".","T","o","o","l","B","o","x",".","e","x","e">>
CommonDll == <<"Q","u","a","n","t","C","o","n","n","e","c","t",".","C","o","m","m","o","n",".","d","l","l">>
dotpng == <<".","p","n","g">>
plotpng == <<"p","l","o","t",".","p","n","g">>

\* Path.glob('QuantConnect*.*') applied to the names found in a folder
GlobQuantConnect(names) ==
    {n \in names :
        /\ Len(n) >= Len(QuantConnect)
        /\ SubSeq(n, 1, Len(QuantConnect)) = QuantConnect
        /\ Contains(<<".">>, SubSeq(n, Len(QuantConnect) + 1, Len(n)))}

\* a missing config.json / a missing key / a missing optional path
NoFile == [exists |-> FALSE]
NoPath == [some |-> FALSE]
Path(abs, segs) == [some |-> TRUE, abs |-> abs, segs |-> segs]
NoDir == <<>>
CfgAt(c, d) == IF d \in DOMAIN c THEN c[d] ELSE NoFile
FilesAt(f, d) == IF d \in DOMAIN f THEN f[d] ELSE {}

Config(af, dof, plugin) ==
    [exists |-> TRUE, assembly_folder |-> af, default_output_folder |-> dof,
     plugin_directory |-> plugin]

Ok == [type |-> "ok", line |-> 0]
Raised(type, line) == [type |-> type, line |-> line]

\* ---- faulty variants of get_assemblies_folder
GetAssembliesFolderBothMissing(wd, c, f) ==
    LET conf == CfgAt(c, wd) IN
    IF ~conf.exists
    THEN [status |-> Raised("FileNotFoundError", 44), path |-> NoDir, cfg |-> c]
    ELSE IF ~conf.assembly_folder.some
    THEN [status |-> Raised("KeyError", 45), path |-> NoDir, cfg |-> c]
    ELSE LET info == Resolve(conf.assembly_folder, wd)
             assemblies == GlobQuantConnect(FilesAt(f, info))
         IN IF ToolBoxExe \notin assemblies /\ CommonDll \notin assemblies
            THEN [status |-> Raised("NotImplementedError", 48),
                  path |-> NoDir, cfg |-> c]
            ELSE [status |-> Ok, path |-> info,
                  cfg |-> IF ~CfgAt(c, info).exists
                          THEN [c EXCEPT ![info] = Config(NoPath, NoPath, info)]
                          ELSE c]

GetAssembliesFolderOverwrite(wd, c, f) ==
    LET conf == CfgAt(c, wd) IN
    IF ~conf.exists
    THEN [status |-> Raised("FileNotFoundError", 44), path |-> NoDir, cfg |-> c]
    ELSE IF ~conf.assembly_folder.some
    THEN [status |-> Raised("KeyError", 45), path |-> NoDir, cfg |-> c]
    ELSE LET info == Resolve(conf.assembly_folder, wd)
             assemblies == GlobQuantConnect(FilesAt(f, info))
         IN IF ToolBoxExe \notin assemblies \/ CommonDll \notin assemblies
            THEN [status |-> Raised("NotImplementedError", 48),
                  path |-> NoDir, cfg |-> c]
            ELSE [status |-> Ok, path |-> info,
                  cfg |-> [c EXCEPT ![info] = Config(NoPath, NoPath, info)]]

\* get_assemblies_folder, lines 44-57: outcome, returned path and the
\* config.json files afterwards, given the working directory wd, the
\* config.json files c and the folder contents f
GetAssembliesFolder(wd, c, f) ==
    LET conf == CfgAt(c, wd) IN
    IF ~conf.exists
    THEN [status |-> Raised("FileNotFoundError", 44), path |-> NoDir, cfg |-> c]
    ELSE IF ~conf.assembly_folder.some
    THEN [status |-> Raised("KeyError", 45), path |-> NoDir, cfg |-> c]
    ELSE LET info == Resolve(conf.assembly_folder, wd)
             assemblies == GlobQuantConnect(FilesAt(f, info))
         IN IF ToolBoxExe \notin assemblies \/ CommonDll \notin assemblies
            THEN [status |-> Raised("NotImplementedError", 48),
                  path |-> NoDir, cfg |-> c]
            ELSE [status |-> Ok, path |-> info,
                  cfg |-> IF ~CfgAt(c, info).exists
                          THEN [c EXCEPT ![info] = Config(NoPath, NoPath, info)]
                          ELSE c]

\* ------------------------------------------------------------ --size, uuid
Digits == {"0","1","2","3","4","5","6","7","8","9"}
DigitVal(ch) ==
    CASE ch = "0" -> 0 [] ch = "1" -> 1 [] ch = "2" -> 2 [] ch = "3" -> 3
      [] ch = "4" -> 4 [] ch = "5" -> 5 [] ch = "6" -> 6 [] ch = "7" -> 7
      [] ch = "8" -> 8 [] ch = "9" -> 9

\* Python: s.split(',')
RECURSIVE Split(_)
Split(s) ==
    IF ~Contains(<<",">>, s) THEN <<s>>
    ELSE LET i == CHOOSE k \in 1..Len(s) :
                     s[k] = "," /\ \A j \in 1..(k - 1) : s[j] # ","
         IN <<SubSeq(s, 1, i - 1)>> \o Split(SubSeq(s, i + 1, Len(s)))

\* Python: int(p) succeeds on a non-empty run of decimal digits
IsInt(p) == Len(p) > 0 /\ \A i \in 1..Len(p) : p[i] \in Digits
RECURSIVE IntOf(_)
IntOf(p) ==
    IF Len(p) = 0 THEN 0
    ELSE 10 * IntOf(SubSeq(p, 1, Len(p) - 1)) + DigitVal(p[Len(p)])

SizeDefault == <<"8","0","0",",","4","0","0">>
SizeBad == <<"8","0","0","x","4","0","0">>
SizeSingle == <<"8","0","0">>
Sizes == {SizeDefault, SizeBad, SizeSingle}

\* str(uuid.uuid4()) values the run may draw
UuidStrings ==
    { <<"3","f","2","a","9","c","1","e","-","7","b","4","d","-","4","e","6","a","-","9","c","0","f","-","5","d","8","e","1","a","2","b","3","c","4","d">>,
      <<"a","0","1","b","2","3","c","d","-","1","1","1","1","-","4","2","2","2","-","8","3","3","3","-","4","4","4","4","5","5","5","5","6","6","6","6">> }

\* ---- faulty variant of the resolution test
IsLowResolutionHourAndDaily(data_file_argument) ==
    Contains(hour, data_file_argument) /\ Contains(daily, data_file_argument)

\* get_data_plot_and_save_image, line 148
IsLowResolution(data_file_argument) ==
    Contains(hour, data_file_argument) \/ Contains(daily, data_file_argument)

\* ------------------------------------------------------------------- state
VARIABLES
    pc,                     \* position of the process in the pipeline
    arguments,              \* docopt dictionary of the running invocation
    cwd,                    \* os.getcwd()
    sys_path,               \* entries appended to sys.path
    dirs,                   \* directories that exist
    files,                  \* dir -> names of the assembly files in it
    cfg,                    \* dir -> content of its config.json
    images,                 \* image files written: [dir, name]
    plot_filename,          \* local of get_data_plot_and_save_image
    assemblies_folder,      \* outcome of the last get_assemblies_folder call
    df,                     \* df.columns after parse_data_as_dataframe
    cols_to_plot,           \* local of get_data
    size_px,                \* local of get_data_plot_and_save_image
    is_low_resolution_data, \* local of get_data_plot_and_save_image
    formatter,              \* major formatter set on the x axis
    error,                  \* exception that ended the invocation
    returned,               \* value returned by the invocation
    trace,                  \* stages the invocation has run, in order
    calls,                  \* calls made so far by the process
    last_op,                \* function that took the last step
    start                   \* process state when the invocation began

vars == <<pc, arguments, cwd, sys_path, dirs, files, cfg, images,
          plot_filename, assemblies_folder, df, cols_to_plot, size_px,
          is_low_resolution_data, formatter, error, returned, trace, calls,
          last_op, start>>

NoError == [type |-> "none", line |-> 0]
NoArguments == [DATAFILE |-> None, output |-> NoPath, size |-> None]
NoResult == [status |-> NoError, path |-> NoDir]
NoFormatter == "default"
HourMinute == "%H:%M"
File(abs, segs, name) == [some |-> TRUE, abs |-> abs, segs |-> segs, name |-> name]
Snapshot == [cwd |-> cwd, dirs |-> dirs, cfg |-> cfg, images |-> images,
             sys_path |-> sys_path]
Resting == {"idle", "done", "failed"}

\* inputs of the pipeline
PipeIdents == {JoinPath(<<tick, es>>), JoinPath(<<daily, es>>),
               JoinPath(<<hour, openinterest>>), es}
PipeColumnLists == {<<close, price>>, <<openinterest>>, <<volume>>}
OutputArgs == {NoPath, File(FALSE, <<>>, plotpng), File(TRUE, Work, plotpng)}
AssemblyFolderSettings == {Path(FALSE, <<"asm">>), Path(TRUE, Asm), Path(FALSE, <<>>)}
OutputFolderSettings == {NoPath, Path(FALSE, <<"out">>)}
StaleSecondary == Config(NoPath, NoPath, <<"old">>)

Init ==
    \E af \in AssemblyFolderSettings, dof \in OutputFolderSettings,
       present \in SUBSET {ToolBoxExe, CommonDll},
       sec \in {NoFile, StaleSecondary}, outExists \in BOOLEAN :
        /\ (Resolve(af, Work) = Work => sec = NoFile)
        /\ pc = "idle"
        /\ arguments = NoArguments
        /\ cwd = Work
        /\ sys_path = <<>>
        /\ dirs = {Work, Asm} \cup (IF outExists THEN {Out} ELSE {})
        /\ files = [d \in Dirs |-> IF d = Resolve(af, Work) THEN present ELSE {}]
        /\ cfg = [d \in Dirs |-> IF d = Work THEN Config(af, dof, NoDir)
                                 ELSE IF d = Asm THEN sec ELSE NoFile]
        /\ images = {}
        /\ plot_filename = NoPath
        /\ assemblies_folder = NoResult
        /\ df = <<>>
        /\ cols_to_plot = <<>>
        /\ size_px = <<>>
        /\ is_low_resolution_data = FALSE
        /\ formatter = NoFormatter
        /\ error = NoError
        /\ returned = NoPath
        /\ trace = <<>>
        /\ calls = 0
        /\ last_op = "none"
        /\ start = Snapshot

Fail(e) == pc' = "failed" /\ error' = e

\* ---- faulty variant of the entry: DATAFILE is checked after the output path
\* has been resolved
EnterChecksDatafileLate ==
    /\ pc \in Resting
    /\ calls < MaxCalls
    /\ \E datafile \in PipeIdents \cup {None}, output \in OutputArgs,
          size \in Sizes :
        /\ arguments' = [DATAFILE |-> datafile, output |-> output, size |-> size]
        /\ IF datafile = None
           THEN /\ Fail(Raised("NotImplementedError", 140))
                /\ plot_filename' = NoPath
                /\ LET conf == CfgAt(cfg, cwd) IN
                   IF ~output.some /\ conf.exists /\ conf.default_output_folder.some
                   THEN /\ dirs' = dirs \cup {Resolve(conf.default_output_folder, cwd)}
                        /\ trace' = <<"generate_plot_filename">>
                   ELSE /\ dirs' = dirs
                        /\ trace' = <<>>
           ELSE /\ error' = NoError
                /\ plot_filename' = output
                /\ pc' = IF output.some THEN "get_assemblies_folder"
                         ELSE "generate_plot_filename"
                /\ dirs' = dirs
                /\ trace' = <<>>
    /\ start' = Snapshot
    /\ calls' = calls + 1
    /\ last_op' = "get_data_plot_and_save_image"
    /\ assemblies_folder' = NoResult
    /\ df' = <<>>
    /\ cols_to_plot' = <<>>
    /\ size_px' = <<>>
    /\ is_low_resolution_data' = FALSE
    /\ formatter' = NoFormatter
    /\ returned' = NoPath
    /\ UNCHANGED <<cwd, sys_path, files, cfg, images>>

\* get_data_plot_and_save_image, lines 137-143: a new invocation begins
Enter ==
    /\ pc \in Resting
    /\ calls < MaxCalls
    /\ \E datafile \in PipeIdents \cup {None}, output \in OutputArgs,
          size \in Sizes :
        /\ arguments' = [DATAFILE |-> datafile, output |-> output, size |-> size]
        /\ IF datafile = None
           THEN Fail(Raised("NotImplementedError", 140)) /\ plot_filename' = NoPath
           ELSE /\ error' = NoError
                /\ plot_filename' = output
                /\ pc' = IF output.some THEN "get_assemblies_folder"
                         ELSE "generate_plot_filename"
    /\ start' = Snapshot
    /\ calls' = calls + 1
    /\ last_op' = "get_data_plot_and_save_image"
    /\ assemblies_folder' = NoResult
    /\ df' = <<>>
    /\ cols_to_plot' = <<>>
    /\ size_px' = <<>>
    /\ is_low_resolution_data' = FALSE
    /\ formatter' = NoFormatter
    /\ returned' = NoPath
    /\ trace' = <<>>
    /\ UNCHANGED <<cwd, sys_path, dirs, files, cfg, images>>

\* generate_plot_filename, lines 103-110
GeneratePlotFilename ==
    /\ pc = "generate_plot_filename"
    /\ trace' = Append(trace, "generate_plot_filename")
    /\ last_op' = "generate_plot_filename"
    /\ LET conf == CfgAt(cfg, cwd) IN
       IF ~conf.exists
       THEN Fail(Raised("FileNotFoundError", 103)) /\ UNCHANGED <<dirs, plot_filename>>
       ELSE IF ~conf.default_output_folder.some
       THEN Fail(Raised("KeyError", 104)) /\ UNCHANGED <<dirs, plot_filename>>
       ELSE LET default_output_folder == Resolve(conf.default_output_folder, cwd) IN
            /\ dirs' = dirs \cup {default_output_folder}
            /\ \E u \in UuidStrings :
                 plot_filename' = File(TRUE, default_output_folder, Slice(u, 8) \o dotpng)
            /\ pc' = "get_assemblies_folder"
            /\ error' = NoError
    /\ UNCHANGED <<arguments, cwd, sys_path, files, cfg, images,
                   assemblies_folder, df, cols_to_plot, size_px,
                   is_low_resolution_data, formatter, returned, calls, start>>

\* parse_data_as_dataframe, line 87: the call of get_assemblies_folder
GetAssembliesFolderStage ==
    /\ pc = "get_assemblies_folder"
    /\ trace' = Append(trace, "get_assemblies_folder")
    /\ last_op' = "get_assemblies_folder"
    /\ LET r == GetAssembliesFolder(cwd, cfg, files) IN
        /\ assemblies_folder' = [status |-> r.status, path |-> r.path]
        /\ cfg' = r.cfg
        /\ IF r.status = Ok
           THEN pc' = "parse_data_as_dataframe" /\ error' = NoError
           ELSE Fail(r.status)
    /\ UNCHANGED <<arguments, cwd, sys_path, dirs, files, images,
                   plot_filename, df, cols_to_plot, size_px,
                   is_low_resolution_data, formatter, returned, calls, start>>

\* get_assemblies_folder called on its own by the process
CallGetAssembliesFolder ==
    /\ pc \in Resting
    /\ calls < MaxCalls
    /\ calls' = calls + 1
    /\ last_op' = "get_assemblies_folder"
    /\ LET r == GetAssembliesFolder(cwd, cfg, files) IN
        /\ assemblies_folder' = [status |-> r.status, path |-> r.path]
        /\ cfg' = r.cfg
    /\ pc' = "idle"
    /\ arguments' = NoArguments
    /\ plot_filename' = NoPath
    /\ df' = <<>>
    /\ cols_to_plot' = <<>>
    /\ size_px' = <<>>
    /\ is_low_resolution_data' = FALSE
    /\ formatter' = NoFormatter
    /\ error' = NoError
    /\ returned' = NoPath
    /\ trace' = <<>>
    /\ start' = Snapshot
    /\ UNCHANGED <<cwd, sys_path, dirs, files, images>>

\* parse_data_as_dataframe, lines 88-95: chdir, sys.path.append, then the
\* external parser, which raises or yields a data frame
ParseDataAsDataframe ==
    /\ pc = "parse_data_as_dataframe"
    /\ trace' = Append(trace, "parse_data_as_dataframe")
    /\ last_op' = "parse_data_as_dataframe"
    /\ cwd' = assemblies_folder.path
    /\ sys_path' = Append(sys_path, assemblies_folder.path)
    /\ \/ Fail(Raised("ExternalParserError", 94)) /\ df' = <<>>
       \/ /\ df' \in PipeColumnLists
          /\ pc' = "get_data"
          /\ error' = NoError
    /\ UNCHANGED <<arguments, dirs, files, cfg, images, plot_filename,
                   assemblies_folder, cols_to_plot, size_px,
                   is_low_resolution_data, formatter, returned, calls, start>>

\* get_data, lines 68-78
GetData ==
    /\ pc = "get_data"
    /\ trace' = Append(trace, "get_data")
    /\ last_op' = "get_data"
    /\ LET selected == SelectColumns(df, arguments.DATAFILE) IN
        /\ cols_to_plot' = selected
        /\ IF \A i \in 1..Len(selected) : \E j \in 1..Len(df) : df[j] = selected[i]
           THEN pc' = "size" /\ error' = NoError
           ELSE Fail(Raised("KeyError", 77))
    /\ UNCHANGED <<arguments, cwd, sys_path, dirs, files, cfg, images,
                   plot_filename, assemblies_folder, df, size_px,
                   is_low_resolution_data, formatter, returned, calls, start>>

\* get_data_plot_and_save_image, lines 147-148
ParseSize ==
    /\ pc = "size"
    /\ trace' = Append(trace, "size")
    /\ last_op' = "get_data_plot_and_save_image"
    /\ LET fields == Split(arguments.size) IN
       IF \A i \in 1..Len(fields) : IsInt(fields[i])
       THEN /\ size_px' = [i \in 1..Len(fields) |-> IntOf(fields[i])]
            /\ is_low_resolution_data' = IsLowResolution(arguments.DATAFILE)
            /\ pc' = "plot_and_save_image"
            /\ error' = NoError
       ELSE /\ Fail(Raised("ValueError", 147))
            /\ UNCHANGED <<size_px, is_low_resolution_data>>
    /\ UNCHANGED <<arguments, cwd, sys_path, dirs, files, cfg, images,
                   plot_filename, assemblies_folder, df, cols_to_plot,
                   formatter, returned, calls, start>>

\* ---- faulty variant of plot_and_save_image: the file is written before
\* the data is plotted
PlotAndSaveImageOpensFirst ==
    /\ pc = "plot_and_save_image"
    /\ trace' = Append(trace, "plot_and_save_image")
    /\ last_op' = "plot_and_save_image"
    /\ LET target == Resolve(plot_filename, cwd) IN
       IF target \notin dirs
       THEN /\ Fail(Raised("FileNotFoundError", 128))
            /\ UNCHANGED <<formatter, images, returned>>
       ELSE /\ images' = images \cup {[dir |-> target, name |-> plot_filename.name]}
            /\ IF cols_to_plot = <<>>
               THEN /\ Fail(Raised("TypeError", 122))
                    /\ UNCHANGED <<formatter, returned>>
               ELSE /\ formatter' = IF ~is_low_resolution_data
                                    THEN HourMinute ELSE NoFormatter
                    /\ returned' = plot_filename
                    /\ pc' = "done"
                    /\ error' = NoError
    /\ UNCHANGED <<arguments, cwd, sys_path, dirs, files, cfg, plot_filename,
                   assemblies_folder, df, cols_to_plot, size_px,
                   is_low_resolution_data, calls, start>>

\* plot_and_save_image, lines 122-128, and the return of line 151
PlotAndSaveImage ==
    /\ pc = "plot_and_save_image"
    /\ trace' = Append(trace, "plot_and_save_image")
    /\ last_op' = "plot_and_save_image"
    /\ IF cols_to_plot = <<>>
       THEN /\ Fail(Raised("TypeError", 122))
            /\ UNCHANGED <<formatter, images, returned>>
       ELSE /\ formatter' = IF ~is_low_resolution_data
                            THEN HourMinute ELSE NoFormatter
            /\ LET target == Resolve(plot_filename, cwd) IN
               IF Len(size_px) < 2
               THEN /\ Fail(Raised("IndexError", 127))
                    /\ UNCHANGED <<images, returned>>
               ELSE IF target \notin dirs
               THEN /\ Fail(Raised("FileNotFoundError", 128))
                    /\ UNCHANGED <<images, returned>>
               ELSE /\ images' = images \cup
                                 {[dir |-> target, name |-> plot_filename.name]}
                    /\ returned' = plot_filename
                    /\ pc' = "done"
                    /\ error' = NoError
    /\ UNCHANGED <<arguments, cwd, sys_path, dirs, files, cfg, plot_filename,
                   assemblies_folder, df, cols_to_plot, size_px,
                   is_low_resolution_data, calls, start>>

Next ==
    \/ Enter
    \/ GeneratePlotFilename
    \/ GetAssembliesFolderStage
    \/ CallGetAssembliesFolder
    \/ ParseDataAsDataframe
    \/ GetData
    \/ ParseSize
    \/ PlotAndSaveImage

Spec == Init /\ [][Next]_vars

\* ------------------------------------------- the column selection on its own
\* get_data right after the parser returned df for data_file_argument
InitSelect ==
    /\ pc = "get_data"
    /\ arguments \in [DATAFILE : Identifiers, output : {File(TRUE, Work, plotpng)},
                      size : {SizeDefault}]
    /\ df \in ColumnLists
    /\ cwd = Asm
    /\ sys_path = <<Asm>>
    /\ dirs = {Work, Asm}
    /\ files = [d \in Dirs |-> IF d = Asm THEN {ToolBoxExe, CommonDll} ELSE {}]
    /\ cfg = [d \in Dirs |-> IF d = Work THEN Config(Path(TRUE, Asm), NoPath, NoDir)
                             ELSE IF d = Asm THEN Config(NoPath, NoPath, Asm)
                             ELSE NoFile]
    /\ images = {}
    /\ plot_filename = File(TRUE, Work, plotpng)
    /\ assemblies_folder = [status |-> Ok, path |-> Asm]
    /\ cols_to_plot = <<>>
    /\ size_px = <<>>
    /\ is_low_resolution_data = FALSE
    /\ formatter = NoFormatter
    /\ error = NoError
    /\ returned = NoPath
    /\ trace = <<"get_assemblies_folder", "parse_data_as_dataframe">>
    /\ calls = 1
    /\ last_op = "parse_data_as_dataframe"
    /\ start = [cwd |-> Work, dirs |-> {Work, Asm},
                cfg |-> [d \in Dirs |-> IF d = Work
                                        THEN Config(Path(TRUE, Asm), NoPath, NoDir)
                                        ELSE NoFile],
                images |-> {}, sys_path |-> <<>>]

NextSelect == GetData

SpecSelect == InitSelect /\ [][NextSelect]_vars

\* ------------------------------------------------------------------ claims
HasPrice(col) == Contains(price, col)
HasClose(col) == Contains(close, col)
FirstTwoIfThree(matched) ==
    IF Len(matched) = 3 THEN <<matched[1], matched[2]>> ELSE matched
Selected == last_op = "get_data"
MarksTick == Contains(tick, arguments.DATAFILE)
MarksOpenInterest == Contains(openinterest, arguments.DATAFILE)
Ran(stage) == \E i \in 1..Len(trace) : trace[i] = stage

\* C1: for every identifier containing "openinterest" and every list of
\* parsed columns, get_data selects exactly <<"openinterest">>, whatever
\* other markers the identifier has and whatever price/close columns exist.
C1_OpenInterestForced ==
    (Selected /\ MarksOpenInterest) => cols_to_plot = <<openinterest>>

C1_Witness ==
    /\ Selected /\ MarksOpenInterest /\ MarksTick
    /\ Len(SelectSeq(df, HasPrice)) = 3
    /\ cols_to_plot = <<openinterest>>

\* C2 as stated: for every identifier containing "tick", get_data selects
\* the columns containing "price", in order, the first 2 of them when
\* exactly 3 matched.
C2_TickSelectsPrice ==
    (Selected /\ MarksTick) =>
        cols_to_plot = FirstTwoIfThree(SelectSeq(df, HasPrice))

\* C2 as amended: for every identifier containing "tick" and not
\* "openinterest", get_data selects the columns containing "price", in
\* order, the first 2 of them when exactly 3 matched.
C2_TickWithoutOpenInterestSelectsPrice ==
    (Selected /\ MarksTick /\ ~MarksOpenInterest) =>
        /\ cols_to_plot = FirstTwoIfThree(SelectSeq(df, HasPrice))
        /\ \A i \in 1..Len(cols_to_plot) : HasPrice(cols_to_plot[i])

C2_Witness ==
    /\ Selected /\ MarksTick /\ ~MarksOpenInterest
    /\ Len(SelectSeq(df, HasPrice)) = 3
    /\ Len(df) = 4
    /\ Len(cols_to_plot) = 2

\* C3: for every identifier containing neither "tick" nor "openinterest",
\* get_data selects the columns containing "close", in order: all of them
\* unless exactly 3 matched, then the first 2; never exactly 3 columns.
C3_DefaultSelectsClose ==
    (Selected /\ ~MarksTick /\ ~MarksOpenInterest) =>
        /\ cols_to_plot = FirstTwoIfThree(SelectSeq(df, HasClose))
        /\ Len(cols_to_plot) # 3

C3_Witness ==
    /\ Selected /\ ~MarksTick /\ ~MarksOpenInterest
    /\ Len(SelectSeq(df, HasClose)) = 4
    /\ Len(cols_to_plot) = 4

\* C4: whenever config.json names an assembly folder, get_assemblies_folder
\* raises the set-up error if the folder lacks QuantConnect.ToolBox.exe or
\* lacks QuantConnect.Common.dll, and otherwise returns the folder's
\* absolute path.
C4_AssembliesValidated ==
    LET conf == CfgAt(cfg, cwd) IN
    (last_op = "get_assemblies_folder" /\ conf.exists /\ conf.assembly_folder.some) =>
        LET folder == Resolve(conf.assembly_folder, cwd) IN
        IF ToolBoxExe \in FilesAt(files, folder) /\ CommonDll \in FilesAt(files, folder)
        THEN assemblies_folder = [status |-> Ok, path |-> folder]
        ELSE assemblies_folder =
                 [status |-> Raised("NotImplementedError", 48), path |-> NoDir]

C4_Witness ==
    /\ last_op = "get_assemblies_folder"
    /\ CfgAt(cfg, cwd).exists
    /\ CfgAt(cfg, cwd).assembly_folder.some
    /\ FilesAt(files, Resolve(CfgAt(cfg, cwd).assembly_folder, cwd)) = {ToolBoxExe}
    /\ assemblies_folder.status = Raised("NotImplementedError", 48)

\* C5: in every step, a config.json that exists is left as it is; a
\* config.json is written only by a get_assemblies_folder call that
\* validated, only into the validated folder where none existed, with
\* content {plugin-directory: that folder}; and a successful call repeated
\* returns the same path and writes nothing.
C5_SecondaryConfigWrittenOnce ==
    [][ /\ \A d \in Dirs : cfg[d].exists => cfg'[d] = cfg[d]
        /\ cfg' # cfg =>
             /\ last_op' = "get_assemblies_folder"
             /\ assemblies_folder'.status = Ok
             /\ ~cfg[assemblies_folder'.path].exists
             /\ cfg' = [cfg EXCEPT ![assemblies_folder'.path] =
                            Config(NoPath, NoPath, assemblies_folder'.path)]
        /\ ( /\ last_op = "get_assemblies_folder"
             /\ assemblies_folder.status = Ok
             /\ last_op' = "get_assemblies_folder"
             /\ calls' = calls + 1 ) =>
                 (assemblies_folder' = assemblies_folder /\ cfg' = cfg)
      ]_vars

C5_Witness ==
    /\ last_op = "get_assemblies_folder"
    /\ calls = 2
    /\ assemblies_folder = [status |-> Ok, path |-> Asm]
    /\ cfg[Asm] = Config(NoPath, NoPath, Asm)
    /\ start.cfg = cfg

\* C6: an invocation without DATAFILE fails with the usage error before any
\* stage ran: nothing was read, created or written.
C6_MissingDatafileFailsFirst ==
    (last_op = "get_data_plot_and_save_image" /\ arguments.DATAFILE = None) =>
        /\ pc = "failed"
        /\ error = Raised("NotImplementedError", 140)
        /\ trace = <<>>
        /\ Snapshot = start

C6_Witness ==
    /\ last_op = "get_data_plot_and_save_image"
    /\ arguments.DATAFILE = None
    /\ ~arguments.output.some
    /\ CfgAt(cfg, cwd).exists
    /\ CfgAt(cfg, cwd).default_output_folder.some
    /\ Out \notin dirs
    /\ pc = "failed"

\* C7: once the plot is drawn, the "%H:%M" formatter is set if and only if
\* DATAFILE contains neither "hour" nor "daily".
C7_FormatterPolarity ==
    (last_op = "plot_and_save_image" /\ error.line # 122) =>
        (formatter = HourMinute <=>
            (~Contains(hour, arguments.DATAFILE) /\ ~Contains(daily, arguments.DATAFILE)))

C7_Witness ==
    /\ pc = "done"
    /\ Contains(daily, arguments.DATAFILE)
    /\ ~Contains(hour, arguments.DATAFILE)
    /\ formatter = NoFormatter

\* C8: with --output, the image is at exactly that path (as the caller's
\* working directory reads it), that path is returned, and the default
\* output folder is neither read nor created; without --output, the
\* returned path is <default_output_folder>/<8 characters>.png, the folder
\* exists and the image is there.
C8_OutputPathResolution ==
    pc = "done" =>
        IF arguments.output.some
        THEN /\ returned = arguments.output
             /\ [dir |-> Resolve(arguments.output, start.cwd),
                 name |-> arguments.output.name] \in images
             /\ ~Ran("generate_plot_filename")
             /\ dirs = start.dirs
        ELSE LET folder == Resolve(CfgAt(start.cfg, start.cwd).default_output_folder,
                                   start.cwd) IN
             /\ returned.abs /\ returned.segs = folder
             /\ Len(returned.name) = 8 + Len(dotpng)
             /\ SubSeq(returned.name, 9, Len(returned.name)) = dotpng
             /\ folder \in dirs
             /\ [dir |-> folder, name |-> returned.name] \in images

\* the order of the stages of one invocation
StageOrder ==
    (IF arguments.output.some THEN <<>> ELSE <<"generate_plot_filename">>)
    \o <<"get_assemblies_folder", "parse_data_as_dataframe", "get_data",
         "size", "plot_and_save_image">>
InStageOrder ==
    /\ Len(trace) <= Len(StageOrder)
    /\ trace = SubSeq(StageOrder, 1, Len(trace))
InPipeline == pc \notin {"idle"} /\ arguments.DATAFILE # None

\* C9 as stated: the stages run at most once and in order, the image is
\* written only by a completed run, and a failed invocation leaves the
\* file system as it found it.
C9_FailureLeavesNothing ==
    InPipeline =>
        /\ InStageOrder
        /\ images # start.images => (pc = "done" /\ trace = StageOrder)
        /\ pc = "failed" =>
             (images = start.images /\ dirs = start.dirs /\ cfg = start.cfg)

\* C9 as amended: the stages run at most once and in order, the image is
\* written only by a completed run, and a failed invocation leaves no
\* image; it may leave the default output folder it created and the
\* secondary config.json it wrote, and nothing else.
C9_FailureLeavesNoImage ==
    InPipeline =>
        /\ InStageOrder
        /\ images # start.images => (pc = "done" /\ trace = StageOrder)
        /\ pc = "failed" =>
             /\ images = start.images
             /\ \A d \in dirs \ start.dirs :
                    /\ Ran("generate_plot_filename")
                    /\ d = Resolve(CfgAt(start.cfg, start.cwd).default_output_folder,
                                   start.cwd)
             /\ \A d \in Dirs : cfg[d] # start.cfg[d] =>
                    /\ Ran("get_assemblies_folder")
                    /\ d = assemblies_folder.path
                    /\ ~start.cfg[d].exists

C9_Witness ==
    /\ pc = "failed"
    /\ error = Raised("ValueError", 147)
    /\ cfg # start.cfg
    /\ dirs # start.dirs
    /\ images = start.images

\* C10: after a successful load, a further get_assemblies_folder call in
\* the same process reads the config.json the run started with, resolves
\* the same assembly folder and succeeds, and sys.path holds the assembly
\* folder at most once.
C10_ProcessStateRestored ==
    (Ran("parse_data_as_dataframe") /\ error.line # 94) =>
        /\ CfgAt(cfg, cwd) = CfgAt(start.cfg, start.cwd)
        /\ GetAssembliesFolder(cwd, cfg, files) =
               [status |-> Ok, path |-> assemblies_folder.path, cfg |-> cfg]
        /\ Cardinality({i \in 1..Len(sys_path) :
                            sys_path[i] = assemblies_folder.path}) <= 1

====
